---- MODULE Spec2Model ----
(***************************************************************************)
(* Model of the GlobalFactory lifecycle manager of                         *)
(* Microsoft.MixedReality.WebRTC.Native (src/interop/global_factory.cpp).  *)
(*                                                                         *)
(* The program is a set of application threads calling the public methods  *)
(* of the process-wide GlobalFactory, plus the static destructor of        *)
(* g_factory.  Every method is cut at the statements of its body, so that  *)
(* what std::scoped_lock protects is something the model can get wrong.    *)
(* The source has two builds (WINUWP defined or not); the build is chosen  *)
(* in Init and never changes.                                              *)
(*                                                                         *)
(* The second part models AudioReadStream (src/peer_connection.h): the     *)
(* engine's frame callback fills the queue frames_ and one reading thread  *)
(* calls Read.  The header holds Buffer::available and Buffer::readSome;   *)
(* the bodies of Read, bufferNextFrame, audioFrameCallback and             *)
(* Buffer::addFrame are in no file of src/ and follow the description of   *)
(* the frame buffer in the specification.                                  *)
(*                                                                         *)
(* The third part models PumpSourcesAndDiscardMixer, the audio mixer that  *)
(* Initialize hands to the engine (global_factory.cpp, lines 547-601):     *)
(* the engine calls AddSource, RemoveSource and Mix from its own threads.  *)
(***************************************************************************)
EXTENDS Integers, FiniteSets, Sequences, TLC

(* ------------------------------ bounds --------------------------------- *)

\* Number of application threads calling into the GlobalFactory.
NumThreads == 2

\* Number of distinct TrackedObject addresses.
NumObjects == 2

\* Number of times Initialize() may create resources in one behaviour.
MaxInits == 3

\* Number of frames the engine delivers to the stream in one behaviour.
MaxFrames == 3

\* Largest dataLen of a Read call.
MaxRead == 3

\* Largest sample rate, in samples per channel per 10 ms slice.
MaxRate == 2

\* Largest bufferMs a stream is constructed with, in 10 ms slices.
MaxSlices == 1

\* Number of distinct audio sources the engine gives to the mixer.
NumSources == 2

Threads == 1 .. NumThreads

Objects == 1 .. NumObjects

(* --------------------------- program values ---------------------------- *)

\* The empty scoped_refptr / unique_ptr / shared_ptr.
nullptr == 0

\* ObjectType, the tag recorded for each tracked object.
ObjectType == {"kPeerConnection", "kLocalVideoTrack", "kExternalVideoTrackSource"}

\* The thread that owns the CoreWindow dispatcher in the WINUWP build.
UIThread == 1

\* dispatcher.HasThreadAccess() for the calling thread.
HasThreadAccess(t) == t = UIThread

\* Owner value of mutex_ while the static destructor of g_factory holds it.
MainThread == -1

\* WebRTC delivers audio at 10 ms intervals.
FrameMs == 10

\* The sample rates of frames and of Read requests.
Rates == 1 .. MaxRate

\* Mono and stereo.
Channels == {1, 2}

\* The bufferMs values a stream is constructed with; -1 asks for the
\* automatically chosen size.
BufferMs == {-1} \cup {k * FrameMs : k \in 0 .. MaxSlices}

\* The automatically chosen buffer size: two slices.
AutoBufferMs == 2 * FrameMs

\* The audio sources (Source*) of the engine.
Sources == 1 .. NumSources

\* static const int16_t zerobuf[200]: zero-initialised.
ZerobufLen == 200

zerobuf == [i \in 1 .. ZerobufLen |-> 0]

\* The samples per channel and the rate of the frame Mix writes:
\* UpdateFrame(0, zerobuf, 80, 8000, ...).
SamplesPerChannel == 80

SampleRateHz == 8000

\* Source::AudioFrameInfo.
AudioFrameInfo == {"kNormal", "kMuted", "kError"}

\* A sample of the comfort signal that pads an exhausted buffer.
Filler == <<0, 0>>

\* An element of the caller's array that Read has not written.
Unwritten == <<-1, 0>>

VARIABLES
  winuwp,             \* TRUE iff the build defines WINUWP
  factory_,           \* GlobalFactory::factory_ : a handle id, or nullptr
  impl_,              \* GlobalFactory::impl_ (WINUWP only), or nullptr
  network_thread_,    \* GlobalFactory::network_thread_ (non-WINUWP), or nullptr
  worker_thread_,     \* GlobalFactory::worker_thread_ (non-WINUWP), or nullptr
  signaling_thread_,  \* GlobalFactory::signaling_thread_ (non-WINUWP), or nullptr
  alive_objects_,     \* GlobalFactory::alive_objects_ : object -> ObjectType
  mutex_,             \* GlobalFactory::mutex_ : owner, or nullptr when free
  pc,                 \* per thread: the statement it is about to execute
  op,                 \* per thread: the method it is executing
  argObj,             \* per thread: the TrackedObject* argument
  argType,            \* per thread: the ObjectType argument
  out,                \* per thread: the handle being returned / the out-parameter
  res,                \* per thread: the mrsResult of Initialize / of the call
  erased,             \* per thread: this RemoveObject call erased its object
  dtor,               \* position of ~GlobalFactory: "none", "log", "shutdown", "done"
  aborted,            \* "none", or the reason the process was aborted
  pools,              \* number of thread pools Initialize() has created so far
  handles,            \* number of factory objects the engine builder has returned
  returned,           \* history: the handles GetOrCreate calls have returned
                      \*          since the last ShutdownNoLock
  failed,             \* history: a factory build returned null since the last
                      \*          ShutdownNoLock
  inits,              \* history: Initialize() runs that passed its checks since
                      \*          the last ShutdownNoLock
  rejected,           \* history: an Initialize() returned kWrongThread since the
                      \*          last ShutdownNoLock
  torn,               \* history: handles that a ShutdownNoLock released
  stopped,            \* history: thread pools that were destroyed
  logged,             \* history: objects reported as leaked by ~GlobalFactory
  peer_,              \* AudioReadStream::peer_ : nullptr until constructed
  frames_,            \* AudioReadStream::frames_ : queue of Frame
  frames_mutex_,      \* AudioReadStream::frames_mutex_ : "free", "callback", "read"
  buffer_ms_,         \* AudioReadStream::buffer_ms_
  buffer_,            \* AudioReadStream::buffer_ : data_, used_, channels_, rate_
  rd,                 \* the reading thread: the statement of Read it is at
  sampleRate,         \* argument of Read
  numChannels,        \* argument of Read
  dataLen,            \* argument of Read
  data,               \* argument of Read: the caller's array
  dst,                \* local of Read: number of elements of data written
  cb,                 \* the engine's callback thread: "idle" or "locked"
  frame,              \* argument of audioFrameCallback
  pushed,             \* number of frames the engine has delivered
  mark,               \* history: the last real sample earlier Reads delivered
  covered,            \* history: at the call of Read the queued frames held
                      \*          dataLen samples of the requested format
  crit_,              \* PumpSourcesAndDiscardMixer::crit_ : "free" or its holder
  audio_source_list_, \* PumpSourcesAndDiscardMixer::audio_source_list_
  adding,             \* the thread in AddSource: "idle" or "locked"
  removing,           \* the thread in RemoveSource: "idle" or "locked"
  audio_source,       \* argument of AddSource / RemoveSource, per operation
  mixing,             \* the thread in Mix: "idle", "loop", "ret", "fault"
  number_of_channels, \* argument of Mix
  audio_frame_for_mixing, \* argument of Mix: the frame Mix is to fill
  it,                 \* Mix: position of the range-for in audio_source_list_
  end,                \* Mix: end of the range, taken when the loop starts
  pumped,             \* history: the sources this Mix has asked for a frame
  listed,             \* history: audio_source_list_ when this Mix began
  raced               \* history: the list was modified while this Mix iterated

fields == <<factory_, impl_, network_thread_, worker_thread_, signaling_thread_>>

locals == <<pc, op, argObj, argType, out, res, erased>>

history == <<returned, failed, inits, rejected, torn, stopped, logged>>

\* The state of the AudioReadStream, its reader and its producer.
stream == <<peer_, frames_, frames_mutex_, buffer_ms_, buffer_, rd, sampleRate,
            numChannels, dataLen, data, dst, cb, frame, pushed, mark, covered>>

\* The state of the mixer and of the engine threads that call it.
mixer == <<crit_, audio_source_list_, adding, removing, audio_source, mixing,
           number_of_channels, audio_frame_for_mixing, it, end, pumped, listed,
           raced>>

\* The state of the GlobalFactory and its callers.
global == <<winuwp, fields, alive_objects_, mutex_, locals, dtor, aborted, pools,
            handles, history>>

vars == <<global, stream, mixer>>

(* ----------------------------- observers ------------------------------- *)

\* The three execution threads exist (in the WINUWP build they live in impl_).
ThreadsPresent ==
  IF winuwp THEN impl_ # nullptr
  ELSE network_thread_ # nullptr /\ worker_thread_ # nullptr /\ signaling_thread_ # nullptr

\* None of the three execution threads exists.
ThreadsAbsent ==
  IF winuwp THEN impl_ = nullptr
  ELSE network_thread_ = nullptr /\ worker_thread_ = nullptr /\ signaling_thread_ = nullptr

\* The Ready state: factory handle and threads present.
Ready == factory_ # nullptr /\ ThreadsPresent

\* The Uninitialized state: factory handle and threads absent.
Uninitialized == factory_ = nullptr /\ ThreadsAbsent

\* The process is running: not aborted, g_factory not destroyed.
Running == aborted = "none" /\ dtor # "done"

\* Thread t takes a step.
StepOf(t) == pc'[t] # pc[t]

(* ------------------------------- Init ---------------------------------- *)

\* The frame argument outside a call of Mix: no frame is in hand.
NoFrame ==
  [data |-> << >>, samples_per_channel |-> 0, sample_rate_hz |-> 0, num_channels |-> 0]

\* g_factory = std::make_unique<GlobalFactory>() : everything empty.
Init ==
  /\ winuwp \in BOOLEAN
  /\ factory_ = nullptr
  /\ impl_ = nullptr
  /\ network_thread_ = nullptr
  /\ worker_thread_ = nullptr
  /\ signaling_thread_ = nullptr
  /\ alive_objects_ = [o \in {} |-> "none"]
  /\ mutex_ = nullptr
  /\ pc = [t \in Threads |-> "idle"]
  /\ op = [t \in Threads |-> "none"]
  /\ argObj = [t \in Threads |-> nullptr]
  /\ argType = [t \in Threads |-> "none"]
  /\ out = [t \in Threads |-> nullptr]
  /\ res = [t \in Threads |-> "none"]
  /\ erased = [t \in Threads |-> FALSE]
  /\ dtor = "none"
  /\ aborted = "none"
  /\ pools = 0
  /\ handles = 0
  /\ returned = {}
  /\ failed = FALSE
  /\ inits = 0
  /\ rejected = FALSE
  /\ torn = {}
  /\ stopped = {}
  /\ logged = {}
  /\ peer_ = nullptr
  /\ frames_ = << >>
  /\ frames_mutex_ = "free"
  /\ buffer_ms_ = 0
  /\ buffer_ = [data_ |-> << >>, used_ |-> 0, channels_ |-> 0, rate_ |-> 0]
  /\ rd = "idle"
  /\ sampleRate = 0
  /\ numChannels = 0
  /\ dataLen = 0
  /\ data = << >>
  /\ dst = 0
  /\ cb = "idle"
  /\ frame = nullptr
  /\ pushed = 0
  /\ mark = Filler
  /\ covered = FALSE
  /\ crit_ = "free"
  /\ audio_source_list_ = << >>
  /\ adding = "idle"
  /\ removing = "idle"
  /\ audio_source = [o \in {"AddSource", "RemoveSource"} |-> nullptr]
  /\ mixing = "idle"
  /\ number_of_channels = 0
  /\ audio_frame_for_mixing = NoFrame
  /\ it = 0
  /\ end = 0
  /\ pumped = << >>
  /\ listed = << >>
  /\ raced = FALSE

(* ------------------------------ locking -------------------------------- *)

\* std::scoped_lock lock(mutex_) without the exclusion: an unguarded section.
ScopedLock_NoExclusion == TRUE

\* std::scoped_lock lock(mutex_) can complete: the mutex is free.
ScopedLock == mutex_ = nullptr

\* Thread t enters method o: it takes mutex_ and goes to the first statement l.
\* Calls are made only while the process runs and g_factory exists.
Enter(t, o, l) ==
  /\ Running
  /\ dtor = "none"
  /\ pc[t] = "idle"
  /\ ScopedLock
  /\ mutex_' = t
  /\ pc' = [pc EXCEPT ![t] = l]
  /\ op' = [op EXCEPT ![t] = o]

\* Thread t executes the statement at label l.
At(t, l) == Running /\ pc[t] = l

(* --------------------------- ShutdownNoLock ---------------------------- *)

\* The thread pools the fields own at this moment.
OwnedPools ==
  IF winuwp THEN {impl_} \ {nullptr}
  ELSE {network_thread_, worker_thread_, signaling_thread_} \ {nullptr}

\* ShutdownNoLock() that releases the factory handle and keeps the threads.
ShutdownNoLock_KeepThreads ==
  /\ factory_' = nullptr
  /\ UNCHANGED <<impl_, network_thread_, worker_thread_, signaling_thread_>>
  /\ torn' = torn \cup ({factory_} \ {nullptr})
  /\ UNCHANGED stopped
  /\ returned' = {}
  /\ failed' = FALSE
  /\ inits' = 0
  /\ rejected' = FALSE

\* ShutdownNoLock() that stops the threads it owns and keeps the pointers to
\* them, so the same threads are handed to the next stop.
ShutdownNoLock_StopOnly ==
  /\ factory_' = nullptr
  /\ UNCHANGED <<impl_, network_thread_, worker_thread_, signaling_thread_>>
  /\ torn' = torn \cup ({factory_} \ {nullptr})
  /\ stopped' = stopped \cup OwnedPools
  /\ returned' = {}
  /\ failed' = FALSE
  /\ inits' = 0
  /\ rejected' = FALSE

\* ShutdownNoLock(): factory_ = nullptr, then impl_ (WINUWP) or the three
\* threads are reset; the history records what was released.
ShutdownNoLock ==
  /\ factory_' = nullptr
  /\ impl_' = nullptr
  /\ network_thread_' = nullptr
  /\ worker_thread_' = nullptr
  /\ signaling_thread_' = nullptr
  /\ torn' = torn \cup ({factory_} \ {nullptr})
  /\ stopped' = stopped \cup OwnedPools
  /\ returned' = {}
  /\ failed' = FALSE
  /\ inits' = 0
  /\ rejected' = FALSE

(* ----------------------------- Initialize ------------------------------ *)

\* The methods that create on demand. GetOrCreate is the overload returning
\* the handle, GetOrCreateRes the overload returning mrsResult; get and
\* GetOrCreateWebRtcFactory exist in the WINUWP build only.
Creators == {"GetOrCreate", "GetOrCreateRes", "get", "GetOrCreateWebRtcFactory"}

\* The field a creating method tests and returns: impl_ for the two WINUWP
\* methods, factory_ for the two GetOrCreate overloads.
FieldOf(o) == IF o \in {"get", "GetOrCreateWebRtcFactory"} THEN impl_ ELSE factory_

\* Initialize_Check without the dispatcher test of lines 495-499.
Initialize_Check_NoThreadTest(t) ==
  /\ At(t, "init_check")
  /\ IF factory_ # nullptr
       THEN aborted' = "RTC_CHECK(!factory_)" /\ UNCHANGED pc
     ELSE IF winuwp /\ impl_ # nullptr
       THEN aborted' = "RTC_CHECK(!impl_)" /\ UNCHANGED pc
     ELSE pc' = [pc EXCEPT ![t] = "init_threads"] /\ UNCHANGED aborted
  /\ UNCHANGED <<mixer, stream, winuwp, fields, alive_objects_, mutex_, op, argObj, argType, out, res,
                 erased, dtor, pools, handles, history>>

\* Initialize(), lines 488-499: the two RTC_CHECKs abort the process; in the
\* WINUWP build a caller with dispatcher access gets kWrongThread and
\* nothing is created.
Initialize_Check(t) ==
  /\ At(t, "init_check")
  /\ IF factory_ # nullptr
       THEN aborted' = "RTC_CHECK(!factory_)" /\ UNCHANGED <<pc, res, rejected>>
     ELSE IF winuwp /\ impl_ # nullptr
       THEN aborted' = "RTC_CHECK(!impl_)" /\ UNCHANGED <<pc, res, rejected>>
     ELSE IF winuwp /\ HasThreadAccess(t)
       THEN /\ res' = [res EXCEPT ![t] = "kWrongThread"]
            /\ pc' = [pc EXCEPT ![t] = "goc_after"]
            /\ rejected' = TRUE
            /\ UNCHANGED aborted
     ELSE /\ pc' = [pc EXCEPT ![t] = "init_threads"]
          /\ UNCHANGED <<aborted, res, rejected>>
  /\ UNCHANGED <<mixer, stream, winuwp, fields, alive_objects_, mutex_, op, argObj, argType, out,
                 erased, dtor, pools, handles, returned, failed, inits, torn, stopped, logged>>

\* Initialize(), lines 533-545: the network, worker and signaling threads are
\* created and started (assigning a unique_ptr destroys the thread it held);
\* lines 500-528 in the WINUWP build: impl_, which owns the threads, is made.
Initialize_Threads(t) ==
  /\ At(t, "init_threads")
  /\ pools < MaxInits
  /\ pools' = pools + 1
  /\ inits' = inits + 1
  /\ IF winuwp
       THEN /\ impl_' = pools + 1
            /\ UNCHANGED <<network_thread_, worker_thread_, signaling_thread_, stopped>>
       ELSE /\ network_thread_' = pools + 1
            /\ worker_thread_' = pools + 1
            /\ signaling_thread_' = pools + 1
            /\ stopped' = stopped \cup OwnedPools
            /\ UNCHANGED impl_
  /\ pc' = [pc EXCEPT ![t] = "init_build"]
  /\ UNCHANGED <<mixer, stream, winuwp, factory_, alive_objects_, mutex_, op, argObj, argType, out,
                 res, erased, dtor, aborted, handles, returned, failed, rejected, torn, logged>>

\* Initialize_Build with a builder that hands back the factory object of the
\* previous lifecycle instead of constructing a new one.
Initialize_Build_Reuse(t) ==
  /\ At(t, "init_build")
  /\ factory_' = IF handles = 0 THEN 1 ELSE handles
  /\ handles' = IF handles = 0 THEN 1 ELSE handles
  /\ pc' = [pc EXCEPT ![t] = "init_ret"]
  /\ UNCHANGED <<mixer, stream, winuwp, impl_, network_thread_, worker_thread_, signaling_thread_,
                 alive_objects_, mutex_, op, argObj, argType, out, res, erased, dtor,
                 aborted, pools, returned, failed, inits, rejected, torn, stopped, logged>>

\* Initialize(), line 634 (line 531 in the WINUWP build): the engine builder
\* returns a new factory object, or null.
Initialize_Build(t) ==
  /\ At(t, "init_build")
  /\ \E ok \in BOOLEAN :
       IF ok
         THEN factory_' = handles + 1 /\ handles' = handles + 1 /\ UNCHANGED failed
         ELSE factory_' = nullptr /\ failed' = TRUE /\ UNCHANGED handles
  /\ pc' = [pc EXCEPT ![t] = "init_ret"]
  /\ UNCHANGED <<mixer, stream, winuwp, impl_, network_thread_, worker_thread_, signaling_thread_,
                 alive_objects_, mutex_, op, argObj, argType, out, res, erased, dtor,
                 aborted, pools, returned, inits, rejected, torn, stopped, logged>>

\* Initialize(), line 647: kSuccess iff factory_ is not null.
Initialize_Return(t) ==
  /\ At(t, "init_ret")
  /\ res' = [res EXCEPT ![t] = IF factory_ # nullptr THEN "kSuccess" ELSE "kUnknownError"]
  /\ pc' = [pc EXCEPT ![t] = "goc_after"]
  /\ UNCHANGED <<mixer, stream, winuwp, fields, alive_objects_, mutex_, op, argObj, argType, out,
                 erased, dtor, aborted, pools, handles, history>>

(* ------------------- GetOrCreate and its WINUWP twins ------------------ *)

\* An entry that leaves the caller's handle as it was passed in.
ClearHandle_Keeps(h) == h

\* factory = nullptr, line 105; factory.reset(), line 171: the handle the
\* caller passed in is dropped.
ClearHandle(h) == nullptr

\* GetOrCreate(), line 94; GetOrCreate(factory&), lines 105-106; get(), line
\* 161; GetOrCreateWebRtcFactory(), lines 171-172: the out-parameter, which
\* the caller passes in empty or holding a handle it got earlier, is cleared
\* and the mutex taken.
GetOrCreate_Lock(t) ==
  /\ \E o \in Creators, h \in 0 .. handles :
       /\ o \in {"get", "GetOrCreateWebRtcFactory"} => winuwp
       /\ FieldOf(o) = nullptr => pools < MaxInits
       /\ Enter(t, o, "goc_check")
       /\ out' = [out EXCEPT ![t] =
                    IF o \in {"GetOrCreateRes", "GetOrCreateWebRtcFactory"}
                      THEN ClearHandle(h) ELSE nullptr]
  /\ UNCHANGED <<mixer, stream, winuwp, fields, alive_objects_, argObj, argType, res, erased, dtor,
                 aborted, pools, handles, history>>

\* A GetOrCreate that calls Initialize without testing the field.
GetOrCreate_Test_NoTest(t) ==
  /\ At(t, "goc_check")
  /\ pc' = [pc EXCEPT ![t] = "init_check"]
  /\ UNCHANGED <<mixer, stream, winuwp, fields, alive_objects_, mutex_, op, argObj, argType, out, res,
                 erased, dtor, aborted, pools, handles, history>>

\* if (!factory_) / if (!impl_), lines 95, 107, 162, 173.
GetOrCreate_Test(t) ==
  /\ At(t, "goc_check")
  /\ pc' = [pc EXCEPT ![t] = IF FieldOf(op[t]) = nullptr THEN "init_check" ELSE "goc_load"]
  /\ UNCHANGED <<mixer, stream, winuwp, fields, alive_objects_, mutex_, op, argObj, argType, out, res,
                 erased, dtor, aborted, pools, handles, history>>

\* if (Initialize() != Result::kSuccess) return ..., lines 96-98, 109-111,
\* 163-165, 174-177: a failed Initialize ends the call with the empty handle.
GetOrCreate_After(t) ==
  /\ At(t, "goc_after")
  /\ pc' = [pc EXCEPT ![t] = IF res[t] = "kSuccess" THEN "goc_load" ELSE "ret"]
  /\ UNCHANGED <<mixer, stream, winuwp, fields, alive_objects_, mutex_, op, argObj, argType, out, res,
                 erased, dtor, aborted, pools, handles, history>>

\* return factory_, line 100; factory = factory_; return (factory ? kSuccess
\* : kUnknownError), lines 113-114; likewise lines 167 and 179-180 for impl_.
GetOrCreate_Load(t) ==
  /\ At(t, "goc_load")
  /\ out' = [out EXCEPT ![t] = FieldOf(op[t])]
  /\ res' = [res EXCEPT ![t] =
               IF op[t] \in {"GetOrCreateRes", "GetOrCreateWebRtcFactory"}
                 THEN (IF FieldOf(op[t]) # nullptr THEN "kSuccess" ELSE "kUnknownError")
                 ELSE @]
  /\ pc' = [pc EXCEPT ![t] = "ret"]
  /\ UNCHANGED <<mixer, stream, winuwp, fields, alive_objects_, mutex_, op, argObj, argType,
                 erased, dtor, aborted, pools, handles, history>>

(* --------------------- GetExisting, GetWorkerThread -------------------- *)

\* A GetExisting that reads factory_ without taking mutex_.
GetExisting_Lock_Unlocked(t) ==
  /\ Running
  /\ dtor = "none"
  /\ pc[t] = "idle"
  /\ pc' = [pc EXCEPT ![t] = "ge_read"]
  /\ op' = [op EXCEPT ![t] = "GetExisting"]
  /\ UNCHANGED <<mixer, stream, winuwp, fields, alive_objects_, mutex_, argObj, argType, out, res,
                 erased, dtor, aborted, pools, handles, history>>

\* GetExisting(), line 119.
GetExisting_Lock(t) ==
  /\ Enter(t, "GetExisting", "ge_read")
  /\ UNCHANGED <<mixer, stream, winuwp, fields, alive_objects_, argObj, argType, out, res, erased,
                 dtor, aborted, pools, handles, history>>

\* A GetExisting that makes a factory when there is none, as GetOrCreate does.
GetExisting_Read_Creating(t) ==
  /\ At(t, "ge_read")
  /\ IF factory_ = nullptr
        THEN /\ factory_' = handles + 1
             /\ handles' = handles + 1
        ELSE UNCHANGED <<factory_, handles>>
  /\ out' = [out EXCEPT ![t] = factory_']
  /\ pc' = [pc EXCEPT ![t] = "ret"]
  /\ UNCHANGED <<mixer, stream, winuwp, impl_, network_thread_, worker_thread_,
                 signaling_thread_, alive_objects_, mutex_, op, argObj, argType,
                 res, erased, dtor, aborted, pools, history>>

\* return factory_, line 120.
GetExisting_Read(t) ==
  /\ At(t, "ge_read")
  /\ out' = [out EXCEPT ![t] = factory_]
  /\ pc' = [pc EXCEPT ![t] = "ret"]
  /\ UNCHANGED <<mixer, stream, winuwp, fields, alive_objects_, mutex_, op, argObj, argType, res,
                 erased, dtor, aborted, pools, handles, history>>

\* GetWorkerThread(), line 124.
GetWorkerThread_Lock(t) ==
  /\ Enter(t, "GetWorkerThread", "gw_read")
  /\ UNCHANGED <<mixer, stream, winuwp, fields, alive_objects_, argObj, argType, out, res, erased,
                 dtor, aborted, pools, handles, history>>

\* return worker_thread_.get(), line 128; return impl_->workerThread.get(),
\* line 126, which dereferences impl_: with impl_ null the behaviour is
\* undefined, and the build either faults or reads some pointer value.
GetWorkerThread_Read(t) ==
  /\ At(t, "gw_read")
  /\ IF winuwp /\ impl_ = nullptr
       THEN \E fault \in BOOLEAN, v \in 0 .. MaxInits :
              IF fault
                THEN aborted' = "null impl_ dereferenced" /\ UNCHANGED <<out, pc>>
                ELSE /\ out' = [out EXCEPT ![t] = v]
                     /\ pc' = [pc EXCEPT ![t] = "ret"]
                     /\ UNCHANGED aborted
       ELSE /\ out' = [out EXCEPT ![t] = IF winuwp THEN impl_ ELSE worker_thread_]
            /\ pc' = [pc EXCEPT ![t] = "ret"]
            /\ UNCHANGED aborted
  /\ UNCHANGED <<mixer, stream, winuwp, fields, alive_objects_, mutex_, op, argObj, argType, res,
                 erased, dtor, pools, handles, history>>

(* ---------------------- AddObject and RemoveObject --------------------- *)

\* An insert that replaces the value of a key already present.
Emplace_Assigns(m, obj, type) ==
  [o \in DOMAIN m \cup {obj} |-> IF o = obj THEN type ELSE m[o]]

\* alive_objects_.emplace(obj, type): a key already present keeps its value.
Emplace(m, obj, type) ==
  [o \in DOMAIN m \cup {obj} |-> IF o \in DOMAIN m THEN m[o] ELSE type]

\* alive_objects_.erase(it).
Erase(m, obj) == [o \in DOMAIN m \ {obj} |-> m[o]]

\* AddObject(type, obj), line 134.
AddObject_Lock(t) ==
  /\ Enter(t, "AddObject", "add_emplace")
  /\ \E obj \in Objects, type \in ObjectType :
       /\ argObj' = [argObj EXCEPT ![t] = obj]
       /\ argType' = [argType EXCEPT ![t] = type]
  /\ UNCHANGED <<mixer, stream, winuwp, fields, alive_objects_, out, res, erased, dtor, aborted,
                 pools, handles, history>>

\* An AddObject without the catch (...): an exception thrown by the insert
\* leaves the noexcept function and ends the process.
AddObject_Emplace_Uncaught(t) ==
  /\ At(t, "add_emplace")
  /\ \E throws \in BOOLEAN :
       IF throws
         THEN /\ aborted' = "uncaught exception"
              /\ UNCHANGED <<alive_objects_, pc>>
         ELSE /\ alive_objects_' = Emplace(alive_objects_, argObj[t], argType[t])
              /\ pc' = [pc EXCEPT ![t] = "ret"]
              /\ UNCHANGED aborted
  /\ UNCHANGED <<mixer, stream, winuwp, fields, mutex_, op, argObj, argType, out, res, erased, dtor,
                 pools, handles, history>>

\* alive_objects_.emplace(obj, type), line 135; an exception thrown by the
\* insert is caught by catch (...), lines 136-137, and the map is unchanged.
AddObject_Emplace(t) ==
  /\ At(t, "add_emplace")
  /\ \E throws \in BOOLEAN :
       alive_objects_' = IF throws THEN alive_objects_
                         ELSE Emplace(alive_objects_, argObj[t], argType[t])
  /\ pc' = [pc EXCEPT ![t] = "ret"]
  /\ UNCHANGED <<mixer, stream, winuwp, fields, mutex_, op, argObj, argType, out, res, erased, dtor,
                 aborted, pools, handles, history>>

\* RemoveObject(type, obj), line 142.
RemoveObject_Lock(t) ==
  /\ Enter(t, "RemoveObject", "rm_find")
  /\ \E obj \in Objects, type \in ObjectType :
       /\ argObj' = [argObj EXCEPT ![t] = obj]
       /\ argType' = [argType EXCEPT ![t] = type]
  /\ UNCHANGED <<mixer, stream, winuwp, fields, alive_objects_, out, res, erased, dtor, aborted,
                 pools, handles, history>>

\* A RemoveObject that tests alive_objects_.empty() also when obj was not
\* found.
RemoveObject_Find_TestsEmpty(t) ==
  /\ At(t, "rm_find")
  /\ pc' = [pc EXCEPT ![t] = IF argObj[t] \in DOMAIN alive_objects_ THEN "rm_check"
                             ELSE "rm_empty"]
  /\ UNCHANGED <<mixer, stream, winuwp, fields, alive_objects_, mutex_, op, argObj, argType, out, res,
                 erased, dtor, aborted, pools, handles, history>>

\* auto it = alive_objects_.find(obj); if (it != end()), lines 143-144.
RemoveObject_Find(t) ==
  /\ At(t, "rm_find")
  /\ pc' = [pc EXCEPT ![t] = IF argObj[t] \in DOMAIN alive_objects_ THEN "rm_check"
                             ELSE "ret"]
  /\ UNCHANGED <<mixer, stream, winuwp, fields, alive_objects_, mutex_, op, argObj, argType, out, res,
                 erased, dtor, aborted, pools, handles, history>>

\* The kind test of RTC_CHECK(it->second == type) with the test left out.
KindMatches_Unchecked(t) == TRUE

\* The kind test of RTC_CHECK(it->second == type), line 145.
KindMatches(t) == alive_objects_[argObj[t]] = argType[t]

\* RTC_CHECK(it->second == type), line 145: a failed check aborts the
\* process; it is no exception, so catch (...) does not see it.
RemoveObject_Check(t) ==
  /\ At(t, "rm_check")
  /\ IF KindMatches(t)
       THEN pc' = [pc EXCEPT ![t] = "rm_erase"] /\ UNCHANGED aborted
       ELSE aborted' = "RTC_CHECK(it->second == type)" /\ UNCHANGED pc
  /\ UNCHANGED <<mixer, stream, winuwp, fields, alive_objects_, mutex_, op, argObj, argType, out, res,
                 erased, dtor, pools, handles, history>>

\* RemoveObject_Erase with the lock scoped to the erase: mutex_ is released
\* before the emptiness test and the teardown.
RemoveObject_Erase_Unlocks(t) ==
  /\ At(t, "rm_erase")
  /\ alive_objects_' = Erase(alive_objects_, argObj[t])
  /\ erased' = [erased EXCEPT ![t] = TRUE]
  /\ pc' = [pc EXCEPT ![t] = "rm_empty"]
  /\ mutex_' = nullptr
  /\ UNCHANGED <<mixer, stream, winuwp, fields, op, argObj, argType, out, res, dtor, aborted,
                 pools, handles, history>>

\* alive_objects_.erase(it), line 146.
RemoveObject_Erase(t) ==
  /\ At(t, "rm_erase")
  /\ alive_objects_' = Erase(alive_objects_, argObj[t])
  /\ erased' = [erased EXCEPT ![t] = TRUE]
  /\ pc' = [pc EXCEPT ![t] = "rm_empty"]
  /\ UNCHANGED <<mixer, stream, winuwp, fields, mutex_, op, argObj, argType, out, res, dtor, aborted,
                 pools, handles, history>>

\* The test of line 147 made always true: teardown after every erase.
IsEmpty_Always(m) == TRUE

\* alive_objects_.empty(), line 147.
IsEmpty(m) == DOMAIN m = {}

\* RemoveObject_Empty without the test: every erase is followed by teardown.
RemoveObject_Empty_NoTest(t) ==
  /\ At(t, "rm_empty")
  /\ pc' = [pc EXCEPT ![t] = "rm_shutdown"]
  /\ UNCHANGED <<mixer, stream, winuwp, fields, alive_objects_, mutex_, op, argObj, argType, out, res,
                 erased, dtor, aborted, pools, handles, history>>

\* if (alive_objects_.empty()), line 147.
RemoveObject_Empty(t) ==
  /\ At(t, "rm_empty")
  /\ pc' = [pc EXCEPT ![t] = IF IsEmpty(alive_objects_) THEN "rm_shutdown" ELSE "ret"]
  /\ UNCHANGED <<mixer, stream, winuwp, fields, alive_objects_, mutex_, op, argObj, argType, out, res,
                 erased, dtor, aborted, pools, handles, history>>

\* A RemoveObject whose teardown locks mutex_ again: the step needs the mutex
\* free while the calling thread itself holds it.
RemoveObject_Shutdown_Relocks(t) ==
  /\ At(t, "rm_shutdown")
  /\ ScopedLock
  /\ ShutdownNoLock
  /\ pc' = [pc EXCEPT ![t] = "ret"]
  /\ UNCHANGED <<mixer, stream, winuwp, alive_objects_, mutex_, op, argObj, argType, out, res, erased,
                 dtor, aborted, pools, handles, logged>>

\* ShutdownNoLock(), line 148.
RemoveObject_Shutdown(t) ==
  /\ At(t, "rm_shutdown")
  /\ ShutdownNoLock
  /\ pc' = [pc EXCEPT ![t] = "ret"]
  /\ UNCHANGED <<mixer, stream, winuwp, alive_objects_, mutex_, op, argObj, argType, out, res, erased,
                 dtor, aborted, pools, handles, logged>>

(* --------------------------- ~GlobalFactory ---------------------------- *)

\* ~GlobalFactory(), line 75: the static destructor of g_factory takes the
\* mutex at process teardown.
Dtor_Lock ==
  /\ Running
  /\ dtor = "none"
  /\ ScopedLock
  /\ mutex_' = MainThread
  /\ dtor' = "log"
  /\ UNCHANGED <<mixer, stream, winuwp, fields, alive_objects_, locals, aborted, pools, handles, history>>

\* Lines 76-88: each object still alive is reported to the error log.
Dtor_Log ==
  /\ Running
  /\ dtor = "log"
  /\ logged' = DOMAIN alive_objects_
  /\ dtor' = "shutdown"
  /\ UNCHANGED <<mixer, stream, winuwp, fields, alive_objects_, mutex_, locals, aborted, pools, handles,
                 returned, failed, inits, rejected, torn, stopped>>

\* A destructor that tears down only once no object is registered any more.
Dtor_Shutdown_WhenEmpty ==
  /\ Running
  /\ dtor = "shutdown"
  /\ IsEmpty(alive_objects_)
  /\ ShutdownNoLock
  /\ mutex_' = nullptr
  /\ dtor' = "done"
  /\ UNCHANGED <<mixer, stream, winuwp, alive_objects_, locals, aborted, pools, handles, logged>>

\* ShutdownNoLock(), line 89, whatever alive_objects_ holds; the lock is
\* released at line 90 and the object is gone.
Dtor_Shutdown ==
  /\ Running
  /\ dtor = "shutdown"
  /\ ShutdownNoLock
  /\ mutex_' = nullptr
  /\ dtor' = "done"
  /\ UNCHANGED <<mixer, stream, winuwp, alive_objects_, locals, aborted, pools, handles, logged>>

(* -------------------------- end of every call -------------------------- *)

\* The method returns: the scoped_lock is released and the caller holds the
\* returned values. The history keeps the handle a GetOrCreate returned.
Return(t) ==
  /\ At(t, "ret")
  /\ mutex_' = nullptr
  /\ returned' = IF op[t] \in {"GetOrCreate", "GetOrCreateRes"} /\ out[t] # nullptr
                   THEN returned \cup {out[t]} ELSE returned
  /\ pc' = [pc EXCEPT ![t] = "idle"]
  /\ op' = [op EXCEPT ![t] = "none"]
  /\ argObj' = [argObj EXCEPT ![t] = nullptr]
  /\ argType' = [argType EXCEPT ![t] = "none"]
  /\ out' = [out EXCEPT ![t] = nullptr]
  /\ res' = [res EXCEPT ![t] = "none"]
  /\ erased' = [erased EXCEPT ![t] = FALSE]
  /\ UNCHANGED <<mixer, stream, winuwp, fields, alive_objects_, dtor, aborted, pools, handles,
                 failed, inits, rejected, torn, stopped, logged>>

(* ---------------------------- specification ---------------------------- *)

Next ==
  \/ \E t \in Threads :
       \/ GetOrCreate_Lock(t)
       \/ GetOrCreate_Test(t)
       \/ Initialize_Check(t)
       \/ Initialize_Threads(t)
       \/ Initialize_Build(t)
       \/ Initialize_Return(t)
       \/ GetOrCreate_After(t)
       \/ GetOrCreate_Load(t)
       \/ GetExisting_Lock(t)
       \/ GetExisting_Read(t)
       \/ GetWorkerThread_Lock(t)
       \/ GetWorkerThread_Read(t)
       \/ AddObject_Lock(t)
       \/ AddObject_Emplace(t)
       \/ RemoveObject_Lock(t)
       \/ RemoveObject_Find(t)
       \/ RemoveObject_Check(t)
       \/ RemoveObject_Erase(t)
       \/ RemoveObject_Empty(t)
       \/ RemoveObject_Shutdown(t)
       \/ Return(t)
  \/ Dtor_Lock
  \/ Dtor_Log
  \/ Dtor_Shutdown

Spec == Init /\ [][Next]_vars

\* The statements of thread t that follow the lock of a call.
Proceed(t) ==
  \/ GetOrCreate_Test(t)
  \/ Initialize_Check(t)
  \/ Initialize_Threads(t)
  \/ Initialize_Build(t)
  \/ Initialize_Return(t)
  \/ GetOrCreate_After(t)
  \/ GetOrCreate_Load(t)
  \/ GetExisting_Read(t)
  \/ GetWorkerThread_Read(t)
  \/ AddObject_Emplace(t)
  \/ RemoveObject_Find(t)
  \/ RemoveObject_Check(t)
  \/ RemoveObject_Erase(t)
  \/ RemoveObject_Empty(t)
  \/ RemoveObject_Shutdown(t)
  \/ Return(t)

\* Fair scheduling: a thread that can execute its next statement eventually
\* does, and engine bring-up and tear-down terminate. Nothing obliges a
\* thread to make a call or the process to exit.
LiveSpec ==
  /\ Spec
  /\ \A t \in Threads : WF_vars(Proceed(t))
  /\ WF_vars(Dtor_Log \/ Dtor_Shutdown)

\* Every variable stays in its range.
TypeOK ==
  /\ winuwp \in BOOLEAN
  /\ factory_ \in 0 .. MaxInits
  /\ impl_ \in 0 .. MaxInits
  /\ network_thread_ \in 0 .. MaxInits
  /\ worker_thread_ \in 0 .. MaxInits
  /\ signaling_thread_ \in 0 .. MaxInits
  /\ DOMAIN alive_objects_ \subseteq Objects
  /\ \A o \in DOMAIN alive_objects_ : alive_objects_[o] \in ObjectType
  /\ mutex_ \in Threads \cup {nullptr, MainThread}
  /\ pools \in 0 .. MaxInits
  /\ handles \in 0 .. pools
  /\ dtor \in {"none", "log", "shutdown", "done"}

(* ======================================================================= *)
(*                           AudioReadStream                               *)
(* ======================================================================= *)

\* std::min.
Min(a, b) == IF a < b THEN a ELSE b

\* A real sample: the k-th sample of the conversion of the frame whose
\* audio_data is f. Samples are ordered by frame, then by position.
Sample(f, k) == <<f, k>>

\* Sample a comes before sample b.
Before(a, b) == a[1] < b[1] \/ (a[1] = b[1] /\ a[2] < b[2])

\* The sample comes from a frame.
IsReal(x) == x[1] > 0

\* Buffer::available that never reports an unread sample.
available_None(b) == 0

\* Buffer::available(): int available() const { return data_.size() - used_; }
available(b) == Len(b.data_) - b.used_

\* Buffer::readSome that reports dstLen samples whatever it copied.
readSome_ReportsAll(b, dstLen) ==
  LET take == Min(available(b), dstLen)
  IN  [take   |-> dstLen,
       dst    |-> SubSeq(b.data_, b.used_ + 1, b.used_ + take),
       buffer |-> [b EXCEPT !.used_ = @ + take]]

\* Buffer::readSome that leaves the cursor where it was.
readSome_KeepsCursor(b, dstLen) ==
  LET take == Min(available(b), dstLen)
  IN  [take   |-> take,
       dst    |-> SubSeq(b.data_, b.used_ + 1, b.used_ + take),
       buffer |-> b]

\* Buffer::readSome that copies from the start of data_ whatever used_ is.
readSome_FromStart(b, dstLen) ==
  LET take == Min(available(b), dstLen)
  IN  [take   |-> take,
       dst    |-> SubSeq(b.data_, 1, take),
       buffer |-> [b EXCEPT !.used_ = @ + take]]

\* Buffer::readSome(dst, dstLen): take = std::min(available(), dstLen) samples
\* are copied from data_.data() + used_ to dst, used_ += take, return take.
readSome(b, dstLen) ==
  LET take == Min(available(b), dstLen)
  IN  [take   |-> take,
       dst    |-> SubSeq(b.data_, b.used_ + 1, b.used_ + take),
       buffer |-> [b EXCEPT !.used_ = @ + take]]

\* The conversion of a frame to a rate and a channel count: the 10 ms of the
\* frame resampled to dstSampleRate, interleaved over dstChannels.
Convert(f, dstSampleRate, dstChannels) ==
  LET n == ((f.number_of_frames * dstSampleRate) \div f.sample_rate) * dstChannels
  IN  [k \in 1 .. n |-> Sample(f.audio_data, k)]

\* Buffer::addFrame(frame, dstSampleRate, dstChannels): the converted frame is
\* appended to the unread samples of the same format; samples of another
\* format are discarded.
addFrame(b, f, dstSampleRate, dstChannels) ==
  LET keep == IF b.rate_ = dstSampleRate /\ b.channels_ = dstChannels
                THEN SubSeq(b.data_, b.used_ + 1, Len(b.data_))
                ELSE << >>
  IN  [data_     |-> keep \o Convert(f, dstSampleRate, dstChannels),
       used_     |-> 0,
       channels_ |-> dstChannels,
       rate_     |-> dstSampleRate]

\* An overrun policy that drops nothing.
DropOldest_Never(q, ms) == q

\* The overrun policy: the oldest frames are dropped while the queue holds
\* more than ms milliseconds of audio.
RECURSIVE DropOldest(_, _)
DropOldest(q, ms) ==
  IF Len(q) * FrameMs > ms THEN DropOldest(Tail(q), ms) ELSE q

\* The number of samples the frames of queue q hold once converted to a rate
\* and a channel count.
RECURSIVE QueuedSamples(_, _, _)
QueuedSamples(q, dstSampleRate, dstChannels) ==
  IF q = << >> THEN 0
  ELSE Len(Convert(Head(q), dstSampleRate, dstChannels))
         + QueuedSamples(Tail(q), dstSampleRate, dstChannels)

\* The working buffer holds unread samples of the format Read was asked for.
BufferServes ==
  /\ buffer_.rate_ = sampleRate
  /\ buffer_.channels_ = numChannels
  /\ available(buffer_) > 0

\* AudioReadStream(peer, bufferMs): -1 selects the automatically chosen size.
AudioReadStream_Ctor ==
  /\ peer_ = nullptr
  /\ \E bufferMs \in BufferMs :
       buffer_ms_' = IF bufferMs = -1 THEN AutoBufferMs ELSE bufferMs
  /\ peer_' = 1
  /\ UNCHANGED <<mixer, global, frames_, frames_mutex_, buffer_, rd, sampleRate,
                 numChannels, dataLen, data, dst, cb, frame, pushed, mark, covered>>

\* audioFrameCallback(audio_data, ...): the engine delivers a 10 ms frame and
\* the callback takes frames_mutex_.
audioFrameCallback_Lock ==
  /\ peer_ # nullptr
  /\ cb = "idle"
  /\ pushed < MaxFrames
  /\ frames_mutex_ = "free"
  /\ frames_mutex_' = "callback"
  /\ cb' = "locked"
  /\ pushed' = pushed + 1
  /\ \E r \in Rates, c \in Channels :
       frame' = [audio_data |-> pushed + 1, sample_rate |-> r,
                 number_of_channels |-> c, number_of_frames |-> r]
  /\ UNCHANGED <<mixer, global, peer_, frames_, buffer_ms_, buffer_, rd, sampleRate,
                 numChannels, dataLen, data, dst, mark, covered>>

\* audioFrameCallback: the oldest frames beyond buffer_ms_ are dropped, the
\* frame is appended to frames_ and the mutex is released.
audioFrameCallback_Push ==
  /\ cb = "locked"
  /\ frames_' = Append(DropOldest(frames_, buffer_ms_), frame)
  /\ frames_mutex_' = "free"
  /\ cb' = "idle"
  /\ frame' = nullptr
  /\ UNCHANGED <<mixer, global, peer_, buffer_ms_, buffer_, rd, sampleRate, numChannels,
                 dataLen, data, dst, pushed, mark, covered>>

\* Read(sampleRate, data, dataLen, numChannels) is called with an array of
\* dataLen elements. The history keeps whether the queued frames held
\* dataLen samples of the requested format at the call.
Read_Begin ==
  /\ peer_ # nullptr
  /\ rd = "idle"
  /\ \E r \in Rates, c \in Channels, n \in 1 .. MaxRead :
       /\ sampleRate' = r
       /\ numChannels' = c
       /\ dataLen' = n
       /\ data' = [i \in 1 .. n |-> Unwritten]
       /\ covered' = (QueuedSamples(frames_, r, c) >= n)
  /\ dst' = 0
  /\ rd' = "loop"
  /\ UNCHANGED <<mixer, global, peer_, frames_, frames_mutex_, buffer_ms_, buffer_, cb,
                 frame, pushed, mark>>

\* Read: samples of the working buffer are copied to the array.
Read_ReadSome ==
  /\ rd = "loop"
  /\ dst < dataLen
  /\ BufferServes
  /\ LET r == readSome(buffer_, dataLen - dst)
     IN  /\ data' = [i \in 1 .. dataLen |->
                       IF dst < i /\ i <= dst + Len(r.dst) THEN r.dst[i - dst]
                       ELSE data[i]]
         /\ dst' = dst + r.take
         /\ buffer_' = r.buffer
  /\ UNCHANGED <<mixer, global, peer_, frames_, frames_mutex_, buffer_ms_, rd, sampleRate,
                 numChannels, dataLen, cb, frame, pushed, mark, covered>>

\* Read: the working buffer has nothing for this request, bufferNextFrame is
\* called.
Read_NextFrame ==
  /\ rd = "loop"
  /\ dst < dataLen
  /\ ~BufferServes
  /\ rd' = "lock"
  /\ UNCHANGED <<mixer, global, peer_, frames_, frames_mutex_, buffer_ms_, buffer_,
                 sampleRate, numChannels, dataLen, data, dst, cb, frame, pushed,
                 mark, covered>>

\* A bufferNextFrame that goes to frames_ without taking frames_mutex_.
bufferNextFrame_Lock_NoMutex ==
  /\ rd = "lock"
  /\ rd' = "pop"
  /\ UNCHANGED <<mixer, global, peer_, frames_, frames_mutex_, buffer_ms_, buffer_,
                 sampleRate, numChannels, dataLen, data, dst, cb, frame, pushed,
                 mark, covered>>

\* bufferNextFrame(sampleRate, channels) takes frames_mutex_.
bufferNextFrame_Lock ==
  /\ rd = "lock"
  /\ frames_mutex_ = "free"
  /\ frames_mutex_' = "read"
  /\ rd' = "pop"
  /\ UNCHANGED <<mixer, global, peer_, frames_, buffer_ms_, buffer_, sampleRate,
                 numChannels, dataLen, data, dst, cb, frame, pushed, mark, covered>>

\* bufferNextFrame: with frames_ empty it returns false and Read goes on to
\* pad; else the oldest frame is taken from frames_ and added to the working
\* buffer in the requested format.
bufferNextFrame_Pop ==
  /\ rd = "pop"
  /\ IF frames_ = << >>
       THEN /\ rd' = "pad"
            /\ UNCHANGED <<frames_, buffer_>>
       ELSE /\ frames_' = Tail(frames_)
            /\ buffer_' = addFrame(buffer_, Head(frames_), sampleRate, numChannels)
            /\ rd' = "loop"
  /\ frames_mutex_' = "free"
  /\ UNCHANGED <<mixer, global, peer_, buffer_ms_, sampleRate, numChannels, dataLen,
                 data, dst, cb, frame, pushed, mark, covered>>

\* Read: the rest of the array is filled with the comfort signal.
Read_Pad ==
  /\ rd = "pad"
  /\ data' = [i \in 1 .. dataLen |-> IF i > dst THEN Filler ELSE data[i]]
  /\ dst' = dataLen
  /\ rd' = "ret"
  /\ UNCHANGED <<mixer, global, peer_, frames_, frames_mutex_, buffer_ms_, buffer_,
                 sampleRate, numChannels, dataLen, cb, frame, pushed, mark, covered>>

\* Read: the loop ends with the array full.
Read_Full ==
  /\ rd = "loop"
  /\ dst = dataLen
  /\ rd' = "ret"
  /\ UNCHANGED <<mixer, global, peer_, frames_, frames_mutex_, buffer_ms_, buffer_,
                 sampleRate, numChannels, dataLen, data, dst, cb, frame, pushed,
                 mark, covered>>

\* The real samples of the array, in the order of the array.
RealSamples == SelectSeq(data, IsReal)

\* Read returns: the caller has the array. The history keeps the last real
\* sample it was given.
Read_Return ==
  /\ rd = "ret"
  /\ mark' = IF RealSamples = << >> THEN mark ELSE RealSamples[Len(RealSamples)]
  /\ rd' = "idle"
  /\ sampleRate' = 0
  /\ numChannels' = 0
  /\ dataLen' = 0
  /\ data' = << >>
  /\ dst' = 0
  /\ covered' = FALSE
  /\ UNCHANGED <<mixer, global, peer_, frames_, frames_mutex_, buffer_ms_, buffer_, cb,
                 frame, pushed>>

NextAudio ==
  \/ AudioReadStream_Ctor
  \/ audioFrameCallback_Lock
  \/ audioFrameCallback_Push
  \/ Read_Begin
  \/ Read_ReadSome
  \/ Read_NextFrame
  \/ bufferNextFrame_Lock
  \/ bufferNextFrame_Pop
  \/ Read_Pad
  \/ Read_Full
  \/ Read_Return

\* One AudioReadStream with its producer and its reader.
SpecAudio == Init /\ [][NextAudio]_vars

(* ======================================================================= *)
(*                      PumpSourcesAndDiscardMixer                         *)
(* ======================================================================= *)

\* The elements of sequence q.
Range(q) == {q[i] : i \in 1 .. Len(q)}

\* audio_source_list_.erase(iter) for the iterator find() returned.
EraseSource(q, s) == SelectSeq(q, LAMBDA x : x # s)

\* What a source leaves in the frame when it is asked for audio.
FrameOf(s) ==
  [data |-> <<s>>, samples_per_channel |-> 1, sample_rate_hz |-> s, num_channels |-> 1]

\* audio_frame_for_mixing->UpdateFrame(0, zerobuf, 80, 8000, kNormalSpeech,
\* kVadUnknown, number_of_channels): the frame takes 80 samples per channel
\* from zerobuf.
UpdateFrame(n) ==
  [data |-> SubSeq(zerobuf, 1, SamplesPerChannel * n),
   samples_per_channel |-> SamplesPerChannel,
   sample_rate_hz |-> SampleRateHz,
   num_channels |-> n]

\* AddSource(audio_source), lines 554-556: rtc::CritScope lock(&crit_). The
\* engine adds a source that is not in the list.
AddSource_Lock ==
  /\ adding = "idle"
  /\ crit_ = "free"
  /\ \E s \in Sources \ Range(audio_source_list_) :
       audio_source' = [audio_source EXCEPT !["AddSource"] = s]
  /\ crit_' = "AddSource"
  /\ adding' = "locked"
  /\ UNCHANGED <<global, stream, audio_source_list_, removing, mixing,
                 number_of_channels, audio_frame_for_mixing, it, end, pumped,
                 listed, raced>>

\* audio_source_list_.emplace_back(audio_source); return true, lines 561-562.
AddSource_Emplace ==
  /\ adding = "locked"
  /\ audio_source_list_' = Append(audio_source_list_, audio_source["AddSource"])
  /\ raced' = (raced \/ mixing = "loop")
  /\ crit_' = "free"
  /\ adding' = "idle"
  /\ audio_source' = [audio_source EXCEPT !["AddSource"] = nullptr]
  /\ UNCHANGED <<global, stream, removing, mixing, number_of_channels,
                 audio_frame_for_mixing, it, end, pumped, listed>>

\* RemoveSource(audio_source), lines 564-566: rtc::CritScope lock(&crit_). The
\* engine removes a source that is in the list.
RemoveSource_Lock ==
  /\ removing = "idle"
  /\ crit_ = "free"
  /\ \E s \in Range(audio_source_list_) :
       audio_source' = [audio_source EXCEPT !["RemoveSource"] = s]
  /\ crit_' = "RemoveSource"
  /\ removing' = "locked"
  /\ UNCHANGED <<global, stream, audio_source_list_, adding, mixing,
                 number_of_channels, audio_frame_for_mixing, it, end, pumped,
                 listed, raced>>

\* find and audio_source_list_.erase(iter), lines 567-572.
RemoveSource_Erase ==
  /\ removing = "locked"
  /\ audio_source_list_' = EraseSource(audio_source_list_, audio_source["RemoveSource"])
  /\ raced' = (raced \/ mixing = "loop")
  /\ crit_' = "free"
  /\ removing' = "idle"
  /\ audio_source' = [audio_source EXCEPT !["RemoveSource"] = nullptr]
  /\ UNCHANGED <<global, stream, adding, mixing, number_of_channels,
                 audio_frame_for_mixing, it, end, pumped, listed>>

\* Mix(number_of_channels, audio_frame_for_mixing), lines 574-576: the
\* range-for takes begin() and end() of audio_source_list_; crit_ is not
\* taken. The frame comes from the caller with whatever it held.
Mix_Begin ==
  /\ mixing = "idle"
  /\ \E n \in Channels : number_of_channels' = n
  /\ \E s \in Sources : audio_frame_for_mixing' = FrameOf(s)
  /\ it' = 1
  /\ end' = Len(audio_source_list_)
  /\ listed' = audio_source_list_
  /\ pumped' = << >>
  /\ raced' = FALSE
  /\ mixing' = "loop"
  /\ UNCHANGED <<global, stream, crit_, audio_source_list_, adding, removing,
                 audio_source>>

\* source->GetAudioFrameWithInfo(source->PreferredSampleRate(),
\* audio_frame_for_mixing), lines 577-586: the source fills the frame unless
\* it reports kError, and the loop goes on either way. After the list was
\* modified under the loop the iterator is invalid: what it reads is any
\* source.
Mix_Pump ==
  /\ mixing = "loop"
  /\ it < end + 1
  /\ \E source \in Sources, audio_frame_info \in AudioFrameInfo :
       /\ ~raced => source = audio_source_list_[it]
       /\ pumped' = Append(pumped, source)
       /\ audio_frame_for_mixing' =
            IF audio_frame_info = "kError" THEN audio_frame_for_mixing
            ELSE FrameOf(source)
  /\ it' = it + 1
  /\ UNCHANGED <<global, stream, crit_, audio_source_list_, adding, removing,
                 audio_source, mixing, number_of_channels, end, listed, raced>>

\* The loop reads through an invalid iterator and the process faults.
Mix_Fault ==
  /\ mixing = "loop"
  /\ it < end + 1
  /\ raced
  /\ mixing' = "fault"
  /\ UNCHANGED <<global, stream, crit_, audio_source_list_, adding, removing,
                 audio_source, number_of_channels, audio_frame_for_mixing, it,
                 end, pumped, listed, raced>>

\* audio_frame_for_mixing->UpdateFrame(0, zerobuf, 80, 8000, ...,
\* number_of_channels), lines 594-596, after the loop.
Mix_UpdateFrame ==
  /\ mixing = "loop"
  /\ it = end + 1
  /\ audio_frame_for_mixing' = UpdateFrame(number_of_channels)
  /\ mixing' = "ret"
  /\ UNCHANGED <<global, stream, crit_, audio_source_list_, adding, removing,
                 audio_source, number_of_channels, it, end, pumped, listed, raced>>

\* Mix returns: the caller has the frame.
Mix_Return ==
  /\ mixing = "ret"
  /\ mixing' = "idle"
  /\ number_of_channels' = 0
  /\ audio_frame_for_mixing' = NoFrame
  /\ it' = 0
  /\ end' = 0
  /\ pumped' = << >>
  /\ listed' = << >>
  /\ raced' = FALSE
  /\ UNCHANGED <<global, stream, crit_, audio_source_list_, adding, removing,
                 audio_source>>

NextMixer ==
  \/ AddSource_Lock
  \/ AddSource_Emplace
  \/ RemoveSource_Lock
  \/ RemoveSource_Erase
  \/ Mix_Begin
  \/ Mix_Pump
  \/ Mix_Fault
  \/ Mix_UpdateFrame
  \/ Mix_Return

\* One mixer with the engine threads that add, remove and mix.
SpecMixer == Init /\ [][NextMixer]_vars

(* ======================================================================= *)
(*                               Claims                                    *)
(* ======================================================================= *)

\* A GetOrCreate call of thread t (either overload) is about to return.
Returning(t) == pc[t] = "ret" /\ op[t] \in {"GetOrCreate", "GetOrCreateRes"}

\* C1 - Idempotent acquisition. In a lifecycle in which the engine builder
\* has not failed, Initialize has run at most once, every GetOrCreate call
\* that was not rejected for its thread returns the stored non-empty handle,
\* and all handles returned in the lifecycle are that same handle.
C1_IdempotentAcquisition ==
  ~failed =>
    /\ inits <= 1
    /\ Cardinality(returned) <= 1
    /\ \A t \in Threads :
         Returning(t) /\ res[t] # "kWrongThread" =>
           /\ inits = 1
           /\ out[t] # nullptr
           /\ out[t] = factory_
           /\ returned \subseteq {out[t]}

\* C1 case: a GetOrCreate call that found the factory Ready returns the
\* handle an earlier call of the same lifecycle was given.
C1_Witness ==
  \E t \in Threads :
    /\ Returning(t)
    /\ ~failed
    /\ inits = 1
    /\ res[t] = "none"
    /\ out[t] # nullptr
    /\ returned = {out[t]}

\* C2 - Lifecycle closure. When the RemoveObject call that erased the last
\* object of the alive-set returns, the factory handle and the network,
\* worker and signaling threads are all absent.
C2_LifecycleClosure ==
  \A t \in Threads :
    pc[t] = "ret" /\ op[t] = "RemoveObject" /\ erased[t] /\ IsEmpty(alive_objects_)
      => Uninitialized

\* C2 case: a RemoveObject that emptied the set returns after releasing the
\* handle the factory held while Ready.
C2_Witness ==
  \E t \in Threads :
    /\ pc[t] = "ret" /\ op[t] = "RemoveObject" /\ erased[t]
    /\ IsEmpty(alive_objects_)
    /\ handles > 0
    /\ handles \in torn
    /\ stopped # {}

\* C3 - Re-creation after shutdown. A GetOrCreate call whose Initialize was
\* neither rejected for its thread nor failed by the builder returns a
\* non-empty handle that no earlier teardown released, with a thread pool
\* that was never stopped; and Initialize's own checks abort the process only
\* after a failed build, never after a teardown.
C3_RecreationAfterShutdown ==
  /\ \A t \in Threads :
       Returning(t) /\ res[t] \notin {"kWrongThread", "kUnknownError"} =>
         /\ out[t] # nullptr
         /\ out[t] = factory_
         /\ out[t] \notin torn
         /\ ThreadsPresent
         /\ OwnedPools \cap stopped = {}
  /\ aborted \in {"RTC_CHECK(!factory_)", "RTC_CHECK(!impl_)"} => failed

\* C3 case: the handle returned after the second teardown.
C3_Witness ==
  \E t \in Threads :
    /\ Returning(t)
    /\ res[t] = "kSuccess"
    /\ Cardinality(torn) >= 2
    /\ Cardinality(stopped) >= 2
    /\ out[t] \notin torn
    /\ out[t] # nullptr

\* C4 - Partial unregister keeps the factory. No step of a RemoveObject call
\* changes the factory handle or the threads, except its teardown step, which
\* is taken only by the call that erased an object and left the alive-set
\* empty; a call that leaves an object registered returns right after the
\* emptiness test.
C4_PartialUnregisterKeepsFactory ==
  [][\A t \in Threads :
       op[t] = "RemoveObject" /\ StepOf(t) =>
         /\ IF pc[t] = "rm_shutdown"
              THEN erased[t] /\ DOMAIN alive_objects_ = {}
              ELSE UNCHANGED fields
         /\ pc[t] = "rm_empty" /\ DOMAIN alive_objects_ # {} => pc'[t] = "ret"]_vars

\* C4 case: RemoveObject(A) returns with B still registered and the factory
\* Ready.
C4_Witness ==
  \E t \in Threads :
    /\ pc[t] = "ret" /\ op[t] = "RemoveObject" /\ erased[t]
    /\ DOMAIN alive_objects_ # {}
    /\ Ready

\* C5 - All-or-nothing presence, as claimed: whenever no operation holds the
\* mutex, the factory handle and the three threads are all present or all
\* absent, also after an initialization whose builder returned null.
C5_AllOrNothing ==
  mutex_ = nullptr => Ready \/ Uninitialized

\* C6 - Initialization failure, as claimed: a GetOrCreate whose Initialize
\* got null from the builder returns the empty handle with the factory
\* Uninitialized, and a later GetOrCreate retries instead of aborting.
C6_InitFailureStaysUninitialized ==
  /\ \A t \in Threads :
       Returning(t) /\ res[t] = "kUnknownError" => out[t] = nullptr /\ Uninitialized
  /\ aborted \notin {"RTC_CHECK(!factory_)", "RTC_CHECK(!impl_)"}

\* C7 - Wrong-thread rejection. In the WINUWP build a creating call made
\* from the dispatcher thread while Uninitialized ends with kWrongThread and
\* the empty handle (it returns an empty handle for no other reason), the
\* dispatcher thread never executes the creating part of Initialize, and the
\* steps that carry kWrongThread change neither the factory handle, the
\* threads, the alive-set nor what has been created; a GetOrCreate from any
\* other thread whose builder does not fail returns the non-empty handle
\* with kSuccess.
C7_WrongThreadRejection ==
  /\ [](\A t \in Threads :
          pc[t] = "ret" /\ op[t] \in Creators =>
            /\ res[t] = "kWrongThread" =>
                 out[t] = nullptr /\ Uninitialized /\ winuwp /\ HasThreadAccess(t)
            /\ winuwp /\ HasThreadAccess(t) /\ out[t] = nullptr =>
                 res[t] = "kWrongThread"
            /\ Returning(t) /\ ~(winuwp /\ HasThreadAccess(t)) /\ res[t] # "kUnknownError" =>
                 /\ out[t] # nullptr
                 /\ op[t] = "GetOrCreateRes" => res[t] = "kSuccess")
  /\ [](\A t \in Threads :
          winuwp /\ HasThreadAccess(t) =>
            pc[t] \notin {"init_threads", "init_build", "init_ret"})
  /\ [][\A t \in Threads :
          StepOf(t) /\ res'[t] = "kWrongThread" =>
            UNCHANGED <<fields, alive_objects_, pools, handles>>]_vars

\* C7 case: after a rejection of the dispatcher thread, a GetOrCreate from
\* another thread initializes the factory and returns kSuccess.
C7_Witness ==
  \E t \in Threads :
    /\ winuwp /\ rejected /\ ~HasThreadAccess(t)
    /\ Returning(t) /\ op[t] = "GetOrCreateRes"
    /\ res[t] = "kSuccess" /\ out[t] # nullptr
    /\ inits = 1 /\ returned = {}

\* C8 - Kind integrity. The process is aborted by the kind check only in a
\* RemoveObject whose kind differs from the kind recorded for its registered
\* object, and a RemoveObject gets past the check only with the recorded
\* kind; the abort ends the process (no step follows it).
C8_KindIntegrity ==
  /\ aborted = "RTC_CHECK(it->second == type)" =>
       \E t \in Threads :
         /\ pc[t] = "rm_check"
         /\ argObj[t] \in DOMAIN alive_objects_
         /\ alive_objects_[argObj[t]] # argType[t]
  /\ \A t \in Threads :
       /\ pc[t] \in {"rm_check", "rm_erase"} => argObj[t] \in DOMAIN alive_objects_
       /\ pc[t] = "rm_erase" => alive_objects_[argObj[t]] = argType[t]
  /\ aborted # "none" => ~ENABLED Next

\* C8 case: the kind check has aborted the process.
C8_Witness ==
  /\ aborted = "RTC_CHECK(it->second == type)"
  /\ \E t \in Threads : pc[t] = "rm_check" /\ alive_objects_[argObj[t]] # argType[t]

\* Thread t has erased the last object and has not finished the teardown.
MidTeardown(t) ==
  pc[t] \in {"rm_empty", "rm_shutdown"} /\ erased[t] /\ DOMAIN alive_objects_ = {}

\* C9 - Teardown atomicity. From the erase that empties the alive-set until
\* the factory and threads are released, the erasing thread holds the mutex,
\* no other thread and not the destructor is inside an operation or enters
\* one, the alive-set stays empty, and the thread goes from the emptiness
\* test to the teardown and from the teardown to its return with everything
\* released.
C9_TeardownAtomicity ==
  [][\A t \in Threads :
       MidTeardown(t) =>
         /\ mutex_ = t
         /\ \A u \in Threads \ {t} : pc[u] = "idle" /\ pc'[u] = "idle"
         /\ dtor = "none" /\ dtor' = "none"
         /\ alive_objects_' = alive_objects_
         /\ pc[t] = "rm_empty" => pc'[t] = "rm_shutdown" /\ UNCHANGED fields
         /\ pc[t] = "rm_shutdown" => pc'[t] = "ret" /\ Uninitialized']_vars

\* C9 case: the last object was erased while the factory was Ready and the
\* teardown is about to run.
C9_Witness ==
  \E t \in Threads : MidTeardown(t) /\ pc[t] = "rm_shutdown" /\ Ready

\* C10 - Teardown only on empty set, as claimed: RemoveObject and the
\* destructor run the teardown only with the alive-set empty.
C10_TeardownOnlyOnEmpty ==
  /\ \A t \in Threads : pc[t] = "rm_shutdown" => DOMAIN alive_objects_ = {}
  /\ dtor = "shutdown" => DOMAIN alive_objects_ = {}

\* C10 amended - RemoveObject runs the teardown only after it has found the
\* alive-set empty under the mutex; the destructor runs the teardown under
\* the same mutex whatever the alive-set holds, after reporting every object
\* still registered.
C10_TeardownOnEmptyOrAtExit ==
  /\ \A t \in Threads :
       pc[t] = "rm_shutdown" => DOMAIN alive_objects_ = {} /\ mutex_ = t
  /\ dtor = "shutdown" => mutex_ = MainThread /\ logged = DOMAIN alive_objects_
  /\ dtor = "done" => Uninitialized

\* C10 case: the destructor is about to tear down a Ready factory while an
\* object is still registered.
C10_Witness ==
  dtor = "shutdown" /\ DOMAIN alive_objects_ # {} /\ Ready


\* C11 - Exactly-once thread teardown. Every thread pool an initialization
\* has started is either still owned by the factory and not stopped, or
\* stopped and no longer owned, so that no stop ever reaches a pool that was
\* stopped before; once the destructor has completed, every pool ever
\* started has been stopped.
C11_ExactlyOnceTeardown ==
  /\ OwnedPools \cap stopped = {}
  /\ OwnedPools \cup stopped = 1 .. pools
  /\ dtor = "done" => stopped = 1 .. pools /\ OwnedPools = {}

\* C11 case: the destructor has completed after several initializations, one
\* of them a failed one that was retried.
C11_Witness ==
  /\ dtor = "done"
  /\ pools >= 2
  /\ handles < pools
  /\ handles >= 1
  /\ stopped = 1 .. pools


\* C12 - GetExisting is a pure observation. The value a GetExisting call
\* returns is the factory handle of that moment, empty when there is none;
\* the call is never inside Initialize; and from the moment the call has the
\* mutex until it has returned, the factory handle, the threads, the
\* alive-set and the counts of threads and factories ever made do not change.
C12_GetExistingPureObservation ==
  /\ [](\A t \in Threads :
          op[t] = "GetExisting" =>
            /\ pc[t] \in {"ge_read", "ret"}
            /\ pc[t] = "ret" => out[t] = factory_)
  /\ [][\A t \in Threads :
          (op[t] = "GetExisting" \/ op'[t] = "GetExisting") =>
            UNCHANGED <<fields, alive_objects_, pools, handles, inits>>]_vars

\* C12 cases: a GetExisting call returns the existing handle while objects
\* are registered, and a GetExisting call returns empty after a teardown.
C12_Witness ==
  \E t \in Threads :
    /\ op[t] = "GetExisting"
    /\ pc[t] = "ret"
    /\ \/ out[t] # nullptr /\ Ready /\ DOMAIN alive_objects_ # {}
       \/ out[t] = nullptr /\ Uninitialized /\ torn # {}


\* The statements of Initialize.
InsideInitialize(u) == pc[u] \in {"init_check", "init_threads", "init_build", "init_ret"}

\* C13 as stated - while another thread is inside GetOrCreate performing
\* Initialize, a thread that is not in a call can begin and complete a
\* GetExisting call without waiting for the initialization to finish.
C13_NeverBlocksOnInit ==
  \A t, u \in Threads :
    InsideInitialize(u) /\ pc[t] = "idle" /\ dtor = "none" =>
      ENABLED GetExisting_Lock(t)

\* C13 amended - GetExisting takes the same mutex as GetOrCreate: while
\* another thread is inside Initialize, no GetExisting call can get past its
\* lock, so no thread reads factory_ through GetExisting before that
\* initialization has finished; GetExisting itself never runs Initialize.
C13_GetExistingWaitsForInit ==
  \A t, u \in Threads :
    InsideInitialize(u) =>
      /\ op[u] # "GetExisting"
      /\ t # u => op[t] # "GetExisting"
      /\ t # u => ~ENABLED GetExisting_Lock(t)

\* C13 case: a thread is in the middle of Initialize, after the threads were
\* started and before the factory is built, while another thread is free to
\* call GetExisting and cannot enter it.
C13_Witness ==
  \E t, u \in Threads :
    /\ t # u
    /\ pc[u] = "init_build"
    /\ pc[t] = "idle"
    /\ dtor = "none"
    /\ ~ENABLED GetExisting_Lock(t)


\* C14 - Best-effort registration. An AddObject call always gets to its
\* return: the process is never ended inside it and its next statement can
\* always run. Its insert step either registers obj (obj is in the alive-set
\* afterwards) or, when the insert throws, changes nothing; in both cases the
\* factory handle and the threads are unchanged, and the return releases the
\* mutex.
C14_BestEffortRegistration ==
  /\ [](\A t \in Threads :
          op[t] = "AddObject" =>
            /\ aborted = "none"
            /\ mutex_ = t
            /\ pc[t] \in {"add_emplace", "ret"}
            /\ ENABLED (AddObject_Emplace(t) \/ Return(t)))
  /\ [][\A t \in Threads :
          pc[t] = "add_emplace" /\ StepOf(t) =>
            /\ pc'[t] = "ret"
            /\ UNCHANGED fields
            /\ \/ UNCHANGED alive_objects_
               \/ /\ alive_objects_' = Emplace(alive_objects_, argObj[t], argType[t])
                  /\ argObj[t] \in DOMAIN alive_objects_']_vars
  /\ [][\A t \in Threads :
          op[t] = "AddObject" /\ pc[t] = "ret" /\ StepOf(t) =>
            /\ pc'[t] = "idle"
            /\ mutex_' = nullptr
            /\ UNCHANGED <<fields, alive_objects_>>]_vars

\* C14 case: an AddObject call is at its return after its insert threw: the
\* object it was to register is not in the alive-set, another object is, and
\* the factory is Ready.
C14_Witness ==
  \E t \in Threads :
    /\ op[t] = "AddObject"
    /\ pc[t] = "ret"
    /\ argObj[t] \notin DOMAIN alive_objects_
    /\ DOMAIN alive_objects_ # {}
    /\ Ready


\* C15 - Leaked objects at process teardown. Once the destructor has passed
\* its report, exactly the objects still registered have been reported, one
\* entry each; the destructor's next statement can always run, whatever the
\* alive-set holds; when it has completed, the factory handle and the threads
\* are absent although the leaked objects are still registered; and no
\* caller is handed an error for it (no call is in progress and no result
\* code is set).
C15_LeakedObjectsAtTeardown ==
  /\ dtor \in {"shutdown", "done"} => logged = DOMAIN alive_objects_
  /\ dtor = "log" => ENABLED Dtor_Log
  /\ dtor = "shutdown" => ENABLED Dtor_Shutdown
  /\ dtor = "done" => Uninitialized /\ mutex_ = nullptr
  /\ dtor # "none" =>
       /\ aborted = "none"
       /\ \A t \in Threads : pc[t] = "idle" /\ res[t] = "none"

\* C15 case: the destructor has completed with every object still registered
\* and reported, and a factory was torn down by it.
C15_Witness ==
  /\ dtor = "done"
  /\ logged = Objects
  /\ DOMAIN alive_objects_ = Objects
  /\ torn # {}
  /\ Uninitialized


\* The operations in progress: the threads inside a call and the destructor.
Inside == {t \in Threads : pc[t] # "idle"} \cup
          (IF dtor \in {"log", "shutdown"} THEN {MainThread} ELSE {})

\* C16 - Mutual exclusion. Whoever is inside GetOrCreate, GetExisting,
\* GetWorkerThread, AddObject, RemoveObject or the destructor holds the
\* mutex, so at most one of them is inside at a time; the factory handle, the
\* threads and the alive-set change only by a step of the holder; and from a
\* call's lock to its return no other operation takes a step, so the calls
\* take effect one after another in the order in which they got the mutex.
C16_MutualExclusion ==
  /\ [](/\ Cardinality(Inside) <= 1
        /\ \A t \in Inside : mutex_ = t
        /\ Inside = {} /\ aborted = "none" => mutex_ = nullptr)
  /\ [][fields' # fields \/ alive_objects_' # alive_objects_ =>
          /\ mutex_ \in Inside
          /\ mutex_ \in Threads => StepOf(mutex_)
          /\ mutex_ = MainThread => dtor' # dtor]_vars
  /\ [][\A t \in Threads :
          pc[t] # "idle" =>
            /\ dtor' = dtor
            /\ \A u \in Threads \ {t} : pc'[u] = pc[u]]_vars

\* C16 case: a thread is in the middle of a RemoveObject call that has erased
\* its object, while another thread is free to call and can enter neither
\* AddObject nor GetOrCreate, and the destructor cannot start.
C16_Witness ==
  \E t, u \in Threads :
    /\ t # u
    /\ pc[t] = "rm_empty"
    /\ pc[u] = "idle"
    /\ mutex_ = t
    /\ ~ENABLED AddObject_Lock(u)
    /\ ~ENABLED GetOrCreate_Lock(u)
    /\ ~ENABLED Dtor_Lock


\* The calls C17 names.
Named == {"GetOrCreate", "GetOrCreateRes", "GetExisting", "AddObject", "RemoveObject"}

\* C17 as stated - under fair scheduling every GetOrCreate, GetExisting,
\* AddObject and RemoveObject call eventually returns.
C17_EveryCallReturns ==
  \A t \in Threads : (op[t] \in Named) ~> (pc[t] = "idle")

\* C17 amended - no operation acquires the mutex while holding it: a thread
\* inside a call is the holder and its next statement never waits for the
\* mutex; and under fair scheduling every call either returns or ends with
\* the process aborted by a failed RTC_CHECK, and a held mutex is released
\* unless the process is aborted, so that a waiting caller can get it.
C17_DeadlockFreedom ==
  /\ [](\A t \in Threads :
          pc[t] # "idle" /\ aborted = "none" => mutex_ = t /\ ENABLED Proceed(t))
  /\ \A t \in Threads :
       (pc[t] # "idle") ~> (pc[t] = "idle" \/ aborted # "none")
  /\ (mutex_ # nullptr) ~> (mutex_ = nullptr \/ aborted # "none")

\* C17 case: a RemoveObject call is about to run ShutdownNoLock with the
\* mutex held by its own thread while another thread has nothing to do but
\* wait for the mutex.
C17_Witness ==
  \E t, u \in Threads :
    /\ t # u
    /\ pc[t] = "rm_shutdown"
    /\ mutex_ = t
    /\ pc[u] = "idle"
    /\ ENABLED RemoveObject_Shutdown(t)
    /\ ~ENABLED RemoveObject_Lock(u)


\* C18 - Read completeness. Read writes the elements of the array from the
\* first on and none beyond dataLen, and when it returns all dataLen elements
\* have been written, each with a real sample or with filler.
C18_ReadCompleteness ==
  rd # "idle" =>
    /\ dataLen > 0
    /\ Len(data) = dataLen
    /\ dst \in 0 .. dataLen
    /\ \A i \in 1 .. dataLen : (data[i] = Unwritten) <=> (i > dst)
    /\ rd = "ret" => dst = dataLen

\* C18 case: a Read of the largest length returns an array of which the
\* buffered frames covered a part: real samples followed by filler.
C18_Witness ==
  /\ rd = "ret"
  /\ dataLen = MaxRead
  /\ IsReal(data[1])
  /\ data[dataLen] = Filler

\* C19 - Filler only on underrun. When Read returns and no frame was ever
\* pushed, the array is all filler; when the queued frames held dataLen
\* samples of the requested format at the call, the array has no filler; no
\* real sample follows filler in the array; and filler is in the array only
\* if the working buffer has no unread sample of the requested format left.
C19_FillerOnlyOnUnderrun ==
  rd = "ret" =>
    /\ pushed = 0 => \A i \in 1 .. dataLen : data[i] = Filler
    /\ covered => \A i \in 1 .. dataLen : IsReal(data[i])
    /\ \A i, j \in 1 .. dataLen : i < j /\ data[i] = Filler => data[j] = Filler
    /\ (\E i \in 1 .. dataLen : data[i] = Filler) => ~BufferServes

\* C19 case: a Read of more than one sample was issued with enough queued
\* frames and returns real samples of more than one frame.
C19_Witness ==
  /\ rd = "ret"
  /\ covered
  /\ dataLen > 1
  /\ \A i \in 1 .. dataLen : IsReal(data[i])
  /\ data[1][1] # data[dataLen][1]

\* The samples the stream still holds in arrival order: the unread samples
\* of the working buffer, then the first sample of each queued frame.
Pending ==
  SubSeq(buffer_.data_, buffer_.used_ + 1, Len(buffer_.data_))
    \o [i \in 1 .. Len(frames_) |-> Sample(frames_[i].audio_data, 1)]

\* Each element of sequence q comes before the next one.
Ascending(q) == \A i \in 1 .. Len(q) - 1 : Before(q[i], q[i + 1])

\* C20 - FIFO consumption. The real samples Read has delivered, in this call
\* after those of the earlier calls, are in the order of arrival of their
\* frames and of their position in the frame, each at most once; frames may
\* be missing from the sequence (dropped as the oldest on overrun), and what
\* the stream still holds comes after everything delivered.
C20_FifoConsumption ==
  /\ Ascending(<<mark>> \o RealSamples)
  /\ Ascending(Pending)
  /\ \A i \in 1 .. Len(RealSamples) : \A j \in 1 .. Len(Pending) :
       Before(RealSamples[i], Pending[j])
  /\ \A j \in 1 .. Len(frames_) : mark[1] < frames_[j].audio_data

\* C20 case: a Read returns samples of the first and of the third frame, the
\* second frame having been dropped as the oldest when the third arrived.
C20_Witness ==
  /\ rd = "ret"
  /\ \E i \in 1 .. dataLen - 1 : data[i][1] = 1 /\ data[i + 1][1] = 3


\* The audio_data of the frames of queue q are consecutive arrival numbers.
Consecutive(q) ==
  \A i \in 1 .. Len(q) - 1 : q[i + 1].audio_data = q[i].audio_data + 1

\* The arrival number of the last frame a callback has put in frames_.
LastQueued == IF cb = "locked" THEN pushed - 1 ELSE pushed

\* C21 - Overrun bound. Whatever number of frames the callbacks have
\* delivered, the queue holds at most buffer_ms_ of audio plus one frame,
\* and what it holds are the most recently arrived frames without a gap, so
\* the frames that were dropped are the oldest ones.
C21_OverrunBound ==
  /\ Len(frames_) * FrameMs <= buffer_ms_ + FrameMs
  /\ Consecutive(frames_)
  /\ frames_ # << >> => frames_[Len(frames_)].audio_data = LastQueued

\* C21 case: with a buffer of one slice, three frames were delivered and no
\* Read has taken a frame; the queue holds the second and the third.
C21_Witness ==
  /\ buffer_ms_ = FrameMs
  /\ pushed = 3
  /\ cb = "idle"
  /\ rd = "idle"
  /\ buffer_.rate_ = 0
  /\ Len(frames_) = 2
  /\ frames_[1].audio_data = 2


\* C22 - Audio buffer locking. frames_mutex_ is held exactly by the callback
\* between its lock and its push and by Read inside bufferNextFrame; frames_
\* changes only by a step of the holder, and bufferNextFrame looks at frames_
\* only as the holder; buffer_ changes only by a step of the thread in Read,
\* never by the callback; and the callback waits for nothing but the mutex:
\* it can start whenever the mutex is free and, holding it, can always
\* finish.
C22_AudioBufferLocking ==
  /\ [](/\ (frames_mutex_ = "callback") <=> (cb = "locked")
        /\ (frames_mutex_ = "read") <=> (rd = "pop")
        /\ cb = "locked" => ENABLED audioFrameCallback_Push
        /\ peer_ # nullptr /\ cb = "idle" /\ pushed < MaxFrames /\ frames_mutex_ = "free"
             => ENABLED audioFrameCallback_Lock)
  /\ [][frames_' # frames_ =>
          \/ frames_mutex_ = "callback" /\ cb = "locked" /\ cb' = "idle" /\ rd' = rd
          \/ frames_mutex_ = "read" /\ rd = "pop" /\ rd' = "loop" /\ cb' = cb]_vars
  /\ [][buffer_' # buffer_ => rd \in {"loop", "pop"} /\ cb' = cb /\ frame' = frame]_vars

\* C22 case: Read is at the lock of bufferNextFrame with frames queued while
\* the callback holds frames_mutex_ with a frame to push, and Read cannot
\* go on.
C22_Witness ==
  /\ rd = "lock"
  /\ cb = "locked"
  /\ frames_mutex_ = "callback"
  /\ frames_ # << >>
  /\ ~ENABLED bufferNextFrame_Lock


\* Thread t is in a call of method o, or takes the lock of one.
InCall(t, o) == op[t] = o \/ op'[t] = o

\* C23 - Factory state machine. The factory becomes Ready only by the build
\* step of an Initialize run by a creating call (GetOrCreate or, in the
\* WINUWP build, its twins); it leaves Ready only by the ShutdownNoLock of a
\* RemoveObject that found the alive-set empty or of the destructor, and
\* both go to Uninitialized; and no step of AddObject, GetExisting or
\* GetWorkerThread, of a creating call while the factory is Ready, or of a
\* RemoveObject that leaves the alive-set non-empty changes the factory
\* handle or the threads.
C23_FactoryStateMachine ==
  /\ [][~Ready /\ Ready' =>
          \E t \in Threads :
            /\ op[t] \in Creators
            /\ pc[t] = "init_build"
            /\ pc'[t] = "init_ret"]_vars
  /\ [][Ready /\ ~Ready' =>
          /\ Uninitialized'
          /\ \/ \E t \in Threads :
                  /\ op[t] = "RemoveObject"
                  /\ pc[t] = "rm_shutdown"
                  /\ pc'[t] = "ret"
                  /\ DOMAIN alive_objects_ = {}
             \/ dtor = "shutdown" /\ dtor' = "done"]_vars
  /\ [][\A t \in Threads :
          \/ InCall(t, "AddObject")
          \/ InCall(t, "GetExisting")
          \/ InCall(t, "GetWorkerThread")
          \/ (\E o \in Creators : InCall(t, o)) /\ Ready
          \/ InCall(t, "RemoveObject") /\ DOMAIN alive_objects_' # {}
          => UNCHANGED fields]_vars

\* C23 case: the factory has been Ready twice and Uninitialized after each:
\* the first time by a RemoveObject that emptied the alive-set, the second
\* time by the destructor, which ran with an object still registered.
C23_Witness ==
  /\ dtor = "done"
  /\ Cardinality(torn) >= 2
  /\ DOMAIN alive_objects_ # {}
  /\ Uninitialized


\* C24 - Alive objects imply a live factory. In every reachable state, if
\* the alive-set is not empty then the factory handle and the threads are
\* present.
C24_AliveImpliesLiveFactory ==
  DOMAIN alive_objects_ # {} => Ready


\* C25 - Removing an untracked object is a no-op. A RemoveObject call whose
\* obj is not in the alive-set goes from its find straight to its return:
\* it is never at the kind check, the erase, the empty test or the teardown,
\* the process is not aborted by it, and the alive-set, the factory handle
\* and the threads are as they were, also when the alive-set is empty and
\* the factory is Ready.
C25_RemoveUntrackedIsNoOp ==
  /\ [](\A t \in Threads :
          /\ pc[t] \in {"rm_check", "rm_erase"} => argObj[t] \in DOMAIN alive_objects_
          /\ pc[t] \in {"rm_empty", "rm_shutdown"} => erased[t])
  /\ [][\A t \in Threads :
          pc[t] = "rm_find" /\ argObj[t] \notin DOMAIN alive_objects_ =>
            /\ pc'[t] \in {"rm_find", "ret"}
            /\ UNCHANGED <<fields, alive_objects_, aborted, erased>>]_vars
  /\ [][\A t \in Threads :
          op[t] = "RemoveObject" /\ pc[t] = "ret" /\ ~erased[t] =>
            UNCHANGED <<fields, alive_objects_, aborted>>]_vars

\* C25 case: a RemoveObject call for an object that was not registered is at
\* its return with the alive-set empty and the factory still Ready.
C25_Witness ==
  \E t \in Threads :
    /\ op[t] = "RemoveObject"
    /\ pc[t] = "ret"
    /\ ~erased[t]
    /\ DOMAIN alive_objects_ = {}
    /\ Ready


\* C26 - Duplicate registration keeps the first kind. The insert of an
\* AddObject whose obj is already registered leaves the alive-set as it was,
\* obj still mapped to the kind of its first registration; a RemoveObject of
\* a registered obj with that kind goes on to erase it, after which obj is
\* not in the alive-set at all, and a RemoveObject with another kind aborts
\* the process at the kind check.
C26_DuplicateKeepsFirstKind ==
  /\ [][\A t \in Threads :
          pc[t] = "add_emplace" /\ argObj[t] \in DOMAIN alive_objects_ =>
            UNCHANGED alive_objects_]_vars
  /\ [][\A t \in Threads :
          pc[t] = "rm_check" /\ (StepOf(t) \/ aborted' # aborted) =>
            IF alive_objects_[argObj[t]] = argType[t]
              THEN pc'[t] = "rm_erase" /\ aborted' = "none"
              ELSE aborted' = "RTC_CHECK(it->second == type)"
                     /\ UNCHANGED alive_objects_]_vars
  /\ [][\A t \in Threads :
          pc[t] = "rm_erase" /\ StepOf(t) =>
            /\ argObj[t] \notin DOMAIN alive_objects_'
            /\ Cardinality(DOMAIN alive_objects_') = Cardinality(DOMAIN alive_objects_) - 1]_vars

\* C26 case: an AddObject call is at its return for an object that is
\* registered with another kind than the one the call passed.
C26_Witness ==
  \E t \in Threads :
    /\ op[t] = "AddObject"
    /\ pc[t] = "ret"
    /\ argObj[t] \in DOMAIN alive_objects_
    /\ alive_objects_[argObj[t]] # argType[t]


\* C27 - No re-initialization while Ready. A thread is inside Initialize
\* only while the factory handle is absent or has just been built by that
\* very run, so the process is never aborted by RTC_CHECK(!factory_); a
\* stored handle stays the same until a teardown removes it; and every
\* GetOrCreate and GetExisting call that returns while a handle is stored
\* returns that handle.
C27_NoReinitWhileReady ==
  /\ [](/\ aborted # "RTC_CHECK(!factory_)"
        /\ \A t \in Threads :
             /\ pc[t] \in {"init_check", "init_threads", "init_build"} => factory_ = nullptr
             /\ pc[t] = "ret" /\ op[t] \in {"GetOrCreate", "GetOrCreateRes", "GetExisting"}
                  /\ factory_ # nullptr => out[t] = factory_)
  /\ [][factory_ # nullptr => factory_' \in {factory_, nullptr}]_vars
  /\ [][factory_ # nullptr /\ factory_' = nullptr =>
          \/ \E t \in Threads : pc[t] = "rm_shutdown" /\ pc'[t] = "ret"
          \/ dtor = "shutdown" /\ dtor' = "done"]_vars

\* C27 case: with the factory Ready and an object registered, a GetOrCreate
\* call that did not run Initialize returns the handle that was built
\* earlier in the same lifecycle, after an earlier lifecycle was torn down.
C27_Witness ==
  \E t \in Threads :
    /\ pc[t] = "ret"
    /\ op[t] \in {"GetOrCreate", "GetOrCreateRes"}
    /\ res[t] # "kWrongThread"
    /\ out[t] = factory_
    /\ out[t] \in returned
    /\ torn # {}
    /\ DOMAIN alive_objects_ # {}
    /\ Ready


\* C28 - Result and handle agree. When GetOrCreate(factory) returns, its
\* result is kSuccess exactly if the out-handle is not empty, and then the
\* out-handle is the stored factory handle; with every other result
\* (kWrongThread, kUnknownError) the out-handle is empty, whatever handle
\* the caller passed in.
C28_ResultAndHandleAgree ==
  \A t \in Threads :
    op[t] = "GetOrCreateRes" =>
      /\ pc[t] # "goc_load" => out[t] \in {nullptr, factory_}
      /\ pc[t] = "ret" =>
           /\ res[t] \in {"kSuccess", "kWrongThread", "kUnknownError"}
           /\ (res[t] = "kSuccess") <=> (out[t] # nullptr)
           /\ res[t] = "kSuccess" => out[t] = factory_
           /\ res[t] # "kSuccess" => out[t] = nullptr

\* C28 case: a GetOrCreate(factory) call returns kUnknownError with an empty
\* out-handle at a time when an earlier factory had been handed out, so the
\* caller could pass a handle in.
C28_Witness ==
  \E t \in Threads :
    /\ op[t] = "GetOrCreateRes"
    /\ pc[t] = "ret"
    /\ res[t] = "kUnknownError"
    /\ out[t] = nullptr
    /\ torn # {}


\* C29 - Mixer pumps and discards. A Mix call never faults; while it loops
\* it has asked the sources that were in the list when it began, each once
\* and in the order of insertion, up to its position; and when it returns it
\* has asked all of them, whatever they reported, and the frame holds 80
\* zero samples per requested channel at 8000 Hz.
C29_MixPumpsAndDiscards ==
  /\ mixing # "fault"
  /\ mixing = "loop" => pumped = SubSeq(listed, 1, it - 1)
  /\ mixing = "ret" =>
       /\ pumped = listed
       /\ audio_frame_for_mixing.samples_per_channel = SamplesPerChannel
       /\ audio_frame_for_mixing.sample_rate_hz = SampleRateHz
       /\ audio_frame_for_mixing.num_channels = number_of_channels
       /\ Len(audio_frame_for_mixing.data) = SamplesPerChannel * number_of_channels
       /\ \A i \in 1 .. Len(audio_frame_for_mixing.data) :
            audio_frame_for_mixing.data[i] = 0

\* The operations that are at the source list: an AddSource or a
\* RemoveSource between its lock and its return, a Mix inside its loop.
AtSourceList ==
  (IF adding = "locked" THEN {"AddSource"} ELSE {})
    \cup (IF removing = "locked" THEN {"RemoveSource"} ELSE {})
    \cup (IF mixing = "loop" THEN {"Mix"} ELSE {})

\* C30 - Mixer source list is race-free. At most one of AddSource,
\* RemoveSource and Mix is at the source list at a time, and the list is
\* never modified while a Mix iterates over it.
C30_SourceListRaceFree ==
  /\ Cardinality(AtSourceList) <= 1
  /\ ~raced

\* C31 - Working-buffer cursor. In every state the cursor is within the
\* buffer, 0 <= used_ <= data_.size(), so available() is not negative, and a
\* readSome of any dstLen >= 0 would return take = min(available(), dstLen),
\* copy exactly the take samples that start at offset used_ and advance
\* used_ by take, leaving data_ alone. Every readSome that Read performs
\* puts into the array, from its position dst on, the samples of data_ from
\* the old used_ to the new one, in their order, and touches nothing else of
\* the array: consecutive calls deliver contiguous, non-overlapping, in-order
\* segments of the buffered samples.
C31_WorkingBufferCursor ==
  /\ [](/\ 0 <= buffer_.used_
        /\ buffer_.used_ <= Len(buffer_.data_)
        /\ available(buffer_) >= 0
        /\ \A dstLen \in 0 .. MaxRead :
             LET r == readSome(buffer_, dstLen)
             IN  /\ r.take = IF available(buffer_) < dstLen THEN available(buffer_)
                             ELSE dstLen
                 /\ Len(r.dst) = r.take
                 /\ \A k \in 1 .. r.take : r.dst[k] = buffer_.data_[buffer_.used_ + k]
                 /\ r.buffer.used_ = buffer_.used_ + r.take
                 /\ r.buffer.data_ = buffer_.data_
                 /\ r.buffer.used_ <= Len(r.buffer.data_))
  /\ [][rd = "loop" /\ buffer_' # buffer_ =>
          /\ buffer_'.data_ = buffer_.data_
          /\ buffer_'.used_ - buffer_.used_ = dst' - dst
          /\ dst' - dst = IF available(buffer_) < dataLen - dst THEN available(buffer_)
                          ELSE dataLen - dst
          /\ \A i \in 1 .. dataLen :
               data'[i] = IF dst < i /\ i <= dst'
                            THEN buffer_.data_[buffer_.used_ + (i - dst)]
                            ELSE data[i]]_vars

\* C31 case: a Read call of more than one sample has returned with its array
\* holding the segment of the working buffer that ends at the cursor, the
\* samples before that segment having gone to an earlier readSome.
C31_Witness ==
  /\ rd = "ret"
  /\ dataLen > 1
  /\ buffer_.used_ > dataLen
  /\ \A i \in 1 .. dataLen :
       /\ IsReal(data[i])
       /\ data[i] = buffer_.data_[buffer_.used_ - dataLen + i]

====
